---- MODULE Spec2Model ----
(***************************************************************************)
(* Model of src/src/Engine/ontology_mapping_engine.py: OntoMapEngine, the  *)
(* cascade controller that routes queries through exact matching, a        *)
(* stage-2 matcher and an optional confidence-gated stage-3 matcher.       *)
(*                                                                         *)
(* Strings are sequences of one-character strings, so that str.strip and   *)
(* str.lower are computed.  Table cells are records [t, v]: t is the       *)
(* Python type of the cell ("str", "int" or "null" for NaN/None) and v its *)
(* text (the decimal digits of an int).  Scores and the threshold are in   *)
(* hundredths (0.9 is 90).                                                 *)
(***************************************************************************)
EXTENDS Integers, Sequences, FiniteSets, TLC

VARIABLES
    pc,        \* position of the caller: new, error, ready, stage2, stage3, done
    cfg,       \* the validation-relevant constructor arguments of the call
    caller,    \* the caller's own query / corpus / cura_map / corpus_df objects
    eng,       \* the fields of the constructed OntoMapEngine (self.*)
    exact_df,  \* run(): stage-1 table
    s2_res,    \* run(): stage-2 table after the merge
    s3_in,     \* run(): queries_for_s3
    non_exact, \* run(): non_exact_matches_ls
    result,    \* the table run() returned
    calls,     \* the collaborator calls made so far, in order
    returned,  \* what each get_match_results call returned
    resolved,  \* what each _map_shortname_to_fullname call read and returned
    n_normalize, \* number of _normalize_df calls made by the controller
    npc,       \* normalizer harness: position
    ntab,      \* normalizer harness: input table and need_code flag
    nout       \* normalizer harness: outputs of the first and second pass

vars == <<pc, cfg, caller, eng, exact_df, s2_res, s3_in, non_exact, result, calls,
          returned, resolved, n_normalize, npc, ntab, nout>>

(***************************************************************************)
(* Bounds of the model.                                                    *)
(***************************************************************************)
MaxQuery == 2
MaxNormRows == 2
MaxTopK == 2

(***************************************************************************)
(* Characters and strings.                                                 *)
(***************************************************************************)
NoStr == <<>>

IsSpace(c) == c = " "

IsUpper(c) == c \in {"L", "C", "N", "K"}

IsDigit(c) == c \in {"0", "1", "2", "3", "4", "5", "6", "7", "8", "9"}

\* str.lower on one character
LowerChar(c) ==
    CASE c = "L" -> "l"
      [] c = "C" -> "c"
      [] c = "N" -> "n"
      [] c = "K" -> "k"
      [] OTHER -> c

\* str.lower
Lower(s) == [i \in 1..Len(s) |-> LowerChar(s[i])]

RECURSIVE LStrip(_)
LStrip(s) ==
    IF s # <<>> /\ IsSpace(Head(s)) THEN LStrip(Tail(s)) ELSE s

RECURSIVE RStrip(_)
RStrip(s) ==
    IF s # <<>> /\ IsSpace(s[Len(s)]) THEN RStrip(SubSeq(s, 1, Len(s) - 1)) ELSE s

\* str.strip
Strip(s) == RStrip(LStrip(s))

\* code point order of the characters used
Ord(c) ==
    CASE c = " " -> 32
      [] c = "." -> 46
      [] c = "/" -> 47
      [] c = "0" -> 48
      [] c = "1" -> 49
      [] c = "2" -> 50
      [] c = "3" -> 51
      [] c = "4" -> 52
      [] c = "5" -> 53
      [] c = "6" -> 54
      [] c = "7" -> 55
      [] c = "8" -> 56
      [] c = "9" -> 57
      [] c = ":" -> 58
      [] c = "C" -> 67
      [] c = "K" -> 75
      [] c = "L" -> 76
      [] c = "N" -> 78
      [] c = "a" -> 97
      [] c = "b" -> 98
      [] c = "c" -> 99
      [] c = "k" -> 107
      [] c = "l" -> 108
      [] c = "m" -> 109
      [] c = "n" -> 110
      [] OTHER -> 120

RECURSIVE StrLess(_, _)
StrLess(a, b) ==
    IF b = <<>> THEN FALSE
    ELSE IF a = <<>> THEN TRUE
    ELSE IF Head(a) = Head(b) THEN StrLess(Tail(a), Tail(b))
    ELSE Ord(Head(a)) < Ord(Head(b))

Range(s) == {s[i] : i \in 1..Len(s)}

RECURSIVE SortedSeq(_)
SortedSeq(S) ==
    IF S = {} THEN <<>>
    ELSE LET m == CHOOSE x \in S : \A y \in S \ {x} : StrLess(x, y)
         IN <<m>> \o SortedSeq(S \ {m})

\* the elements of s at the positions satisfying keep, in order
RECURSIVE SelectIdx(_, _, _)
SelectIdx(s, keep, i) ==
    IF i > Len(s) THEN <<>>
    ELSE (IF keep[i] THEN <<s[i]>> ELSE <<>>) \o SelectIdx(s, keep, i + 1)

\* order-preserving removal of repeated elements (dict.fromkeys / Series.unique)
Unique(s) ==
    SelectIdx(s, [i \in 1..Len(s) |-> \A j \in 1..(i - 1) : s[j] # s[i]], 1)

RECURSIVE Flatten(_)
Flatten(ss) ==
    IF ss = <<>> THEN <<>> ELSE Head(ss) \o Flatten(Tail(ss))

(***************************************************************************)
(* Table cells.                                                            *)
(***************************************************************************)
NullCell == [t |-> "null", v |-> NoStr]

StrCell(s) == [t |-> "str", v |-> s]

IntCell(digits) == [t |-> "int", v |-> digits]

IsNull(c) == c.t = "null"

\* Series.astype(str) on one cell: NaN becomes the text "nan"
AsTypeStr(c) ==
    IF IsNull(c) THEN StrCell(<<"n", "a", "n">>) ELSE StrCell(c.v)

\* the end (exclusive) of the run of digits of s starting at position i
RECURSIVE DigitsEnd(_, _)
DigitsEnd(s, i) ==
    IF i <= Len(s) /\ IsDigit(s[i]) THEN DigitsEnd(s, i + 1) ELSE i

\* Series.str.extract(r'(C\d+)') on one string: the first match, or NaN
ExtractCode(s) ==
    LET starts == {i \in 1..Len(s) : s[i] = "C" /\ i < Len(s) /\ IsDigit(s[i + 1])}
    IN IF starts = {} THEN NullCell
       ELSE LET i == CHOOSE k \in starts : \A m \in starts : k <= m
            IN StrCell(SubSeq(s, i, DigitsEnd(s, i + 1) - 1))

(***************************************************************************)
(* _normalize_df.  A table is [cols: set of column names, rows: sequence   *)
(* of functions from cols to cells]; the result is [ok, err, df].          *)
(***************************************************************************)
NoTable == [cols |-> {}, rows |-> <<>>]

LabelOf(r) == r["label"]

CodeFromOboId(r) == ExtractCode(AsTypeStr(r["obo_id"]).v)

\* df[col] = one new cell per row
WithColumn(df, col, cells) ==
    [cols |-> df.cols \cup {col},
     rows |-> [i \in 1..Len(df.rows) |->
                 [c \in df.cols \cup {col} |->
                    IF c = col THEN cells[i] ELSE df.rows[i][c]]]]

KeyOf(r, keep) == [c \in keep |-> r[c]]

\* df.dropna(subset=keep)
DropNa(df, keep) ==
    [cols |-> df.cols,
     rows |-> SelectIdx(df.rows,
                [i \in 1..Len(df.rows) |-> \A c \in keep : ~IsNull(df.rows[i][c])], 1)]

\* df.drop_duplicates(subset=keep): the first row of each key is kept
DropDuplicates(df, keep) ==
    [cols |-> df.cols,
     rows |-> SelectIdx(df.rows,
                [i \in 1..Len(df.rows) |->
                   \A j \in 1..(i - 1) : KeyOf(df.rows[j], keep) # KeyOf(df.rows[i], keep)], 1)]

CoerceStr(df, col) ==
    [cols |-> df.cols,
     rows |-> [i \in 1..Len(df.rows) |->
                 [c \in df.cols |->
                    IF c = col THEN AsTypeStr(df.rows[i][c]) ELSE df.rows[i][c]]]]

KeepCols(need_code) ==
    {"official_label"} \cup (IF need_code THEN {"clean_code"} ELSE {})

\* step 3 of _normalize_df: dropna, drop_duplicates, then astype(str)
BasicCleaning(df, need_code) ==
    LET d1 == DropDuplicates(DropNa(df, KeepCols(need_code)), KeepCols(need_code))
        d2 == CoerceStr(d1, "official_label")
    IN IF "clean_code" \in d2.cols THEN CoerceStr(d2, "clean_code") ELSE d2

normalize_df(df, need_code) ==
    IF "official_label" \notin df.cols /\ "label" \notin df.cols
    THEN [ok |-> FALSE, err |-> "no_label", df |-> NoTable]
    ELSE
      LET d1 == IF "official_label" \notin df.cols
                THEN WithColumn(df, "official_label",
                                [i \in 1..Len(df.rows) |-> LabelOf(df.rows[i])])
                ELSE df
      IN IF need_code /\ "clean_code" \notin d1.cols /\ "obo_id" \notin d1.cols
         THEN [ok |-> FALSE, err |-> "no_code", df |-> NoTable]
         ELSE
           LET d2 == IF need_code /\ "clean_code" \notin d1.cols
                     THEN WithColumn(d1, "clean_code",
                                     [i \in 1..Len(d1.rows) |-> CodeFromOboId(d1.rows[i])])
                     ELSE d1
           IN [ok |-> TRUE, err |-> "none", df |-> BasicCleaning(d2, need_code)]

(***************************************************************************)
(* Python dicts (insertion-ordered) as sequences of <<key, value>> pairs.  *)
(***************************************************************************)
DictKeys(d) == {d[i][1] : i \in 1..Len(d)}

DictGet(d, k, default) ==
    IF k \in DictKeys(d)
    THEN d[CHOOSE i \in 1..Len(d) : d[i][1] = k][2]
    ELSE default

\* d[k] = v: an existing key keeps its place and takes the new value
DictSet(d, k, v) ==
    IF k \in DictKeys(d)
    THEN [i \in 1..Len(d) |-> IF d[i][1] = k THEN <<k, v>> ELSE d[i]]
    ELSE Append(d, <<k, v>>)

(***************************************************************************)
(* Values of the result tables.                                            *)
(***************************************************************************)
NaN == <<"NaN">>

NaNInt == 0 - 1

NotFound == <<"Not Found">>

NumScore(n) == [t |-> "num", n |-> n, s |-> NoStr]

TextScore(s) == [t |-> "text", n |-> 0, s |-> s]

NullScore == [t |-> "null", n |-> 0, s |-> NoStr]

ExactScore == 100

DigitVal(c) == Ord(c) - 48

AllDigits(s) == s # <<>> /\ \A i \in 1..Len(s) : IsDigit(s[i])

RECURSIVE DigitsToNat(_)
DigitsToNat(s) ==
    IF s = <<>> THEN 0
    ELSE 10 * DigitsToNat(SubSeq(s, 1, Len(s) - 1)) + DigitVal(s[Len(s)])

\* the text of a decimal number "d+" or "d+.d+", read in hundredths; -1 when
\* the text is no number
ParseHundredths(s) ==
    LET dots == {i \in 1..Len(s) : s[i] = "."}
    IN IF dots = {}
       THEN (IF AllDigits(s) THEN 100 * DigitsToNat(s) ELSE -1)
       ELSE LET d == CHOOSE i \in dots : TRUE
                ip == SubSeq(s, 1, d - 1)
                fp == SubSeq(s, d + 1, Len(s))
            IN IF Cardinality(dots) = 1 /\ AllDigits(ip) /\ AllDigits(fp)
               THEN 100 * DigitsToNat(ip)
                    + DigitsToNat(SubSeq(fp \o <<"0", "0">>, 1, 2))
               ELSE -1

\* variant: a score that is no number is filled with 1.00 instead of 0
ToNumericFill1(sc) ==
    CASE sc.t = "num" -> sc.n
      [] sc.t = "text" -> (IF ParseHundredths(Strip(sc.s)) >= 0
                           THEN ParseHundredths(Strip(sc.s)) ELSE 100)
      [] OTHER -> 100

\* pd.to_numeric(x, errors='coerce').fillna(0) on one score
ToNumericFill0(sc) ==
    CASE sc.t = "num" -> sc.n
      [] sc.t = "text" -> (IF ParseHundredths(Strip(sc.s)) >= 0
                           THEN ParseHundredths(Strip(sc.s)) ELSE 0)
      [] OTHER -> 0

DefaultThreshold == 90

(***************************************************************************)
(* Inputs.                                                                 *)
(***************************************************************************)
sL == <<"L">>
sl == <<" ", "l">>
sx == <<"x">>
sK == <<" ", "K">>
sb == <<"b">>

QueryPool == {sL, sl, sx, sK}

QueryLists == UNION {[1..n -> QueryPool] : n \in 0..MaxQuery}

CorpusPool == { <<<<"L", " ">>, sb, <<"L", " ">>>> }

cA == <<"c", "A">>
cB == <<"c", "B">>
cC == <<"c", "C">>

CuraPool ==
    { <<>>,
      << <<sL, cA>>, <<sl, cA>>, <<sx, cB>>, <<sK, cC>> >> }

ThresholdPool == {0, DefaultThreshold}

TopKPool == {MaxTopK}

Row2(c1, v1, c2, v2) == [c \in {c1, c2} |-> IF c = c1 THEN v1 ELSE v2]

Row1(c1, v1) == [c \in {c1} |-> v1]

DfFallback ==
    [cols |-> {"label", "obo_id"},
     rows |-> << Row2("label", StrCell(sL), "obo_id", StrCell(<<"N", ":", "C", "1">>)),
                 Row2("label", StrCell(sL), "obo_id", StrCell(<<"N", ":", "C", "2">>)),
                 Row2("label", StrCell(sx), "obo_id", StrCell(<<"N", ":">>)),
                 Row2("label", StrCell(sb), "obo_id", StrCell(<<"C", "3">>)) >>]

DfNoLabel ==
    [cols |-> {"obo_id"},
     rows |-> << Row1("obo_id", StrCell(<<"N", ":", "C", "1">>)) >>]

DfNoCode ==
    [cols |-> {"label"},
     rows |-> << Row1("label", StrCell(sL)) >>]

\* corpus_df of other_params: absent, or one of the tables
CorpusDfPool ==
    {[given |-> FALSE, df |-> NoTable]}
    \cup {[given |-> TRUE, df |-> d] : d \in {DfFallback, DfNoLabel, DfNoCode}}

CfgPool ==
    {c \in [test_or_prod : BOOLEAN,
            s2_strategy : {"lm", "st", "other"},
            s3_strategy : {"None", "rag", "rag_bie", "other"},
            corpus_df : CorpusDfPool] :
        c.s3_strategy = "None" => c.corpus_df.df \in {NoTable, DfFallback}}

DataPool ==
    [query : QueryLists, corpus : CorpusPool, cura_map : CuraPool,
     s3_threshold : ThresholdPool, topk : TopKPool]

(***************************************************************************)
(* __init__                                                                *)
(***************************************************************************)
NoEngine ==
    [query |-> <<>>, corpus |-> <<>>, cura_map |-> <<>>, topk |-> 0,
     s2_strategy |-> "None", s3_strategy |-> "None", s3_threshold |-> 0,
     corpus_df |-> NoTable]

NoCaller == [query |-> <<>>, corpus |-> <<>>, cura_map |-> <<>>, corpus_df |-> NoTable]

NoCfg ==
    [test_or_prod |-> FALSE, s2_strategy |-> "None", s3_strategy |-> "None",
     corpus_df |-> [given |-> FALSE, df |-> NoTable]]

LabelsOf(df) == [i \in 1..Len(df.rows) |-> AsTypeStr(df.rows[i]["official_label"]).v]

S2Valid(s) == s \in {"lm", "st"}

\* variant: any s3_strategy name is accepted
S3ValidAny(s) == TRUE

S3Valid(s) == s \in {"rag", "rag_bie"}

\* variant: s2_strategy is not validated
InitErrorNoS2Check(c) ==
    IF ~c.test_or_prod THEN "test_or_prod"
    ELSE IF c.s3_strategy = "None" THEN "none"
    ELSE IF ~S3Valid(c.s3_strategy) THEN "s3_strategy"
    ELSE IF ~c.corpus_df.given THEN "corpus_df"
    ELSE normalize_df(c.corpus_df.df, TRUE).err

\* the exception __init__ raises for these arguments, or "none"
InitError(c) ==
    IF ~c.test_or_prod THEN "test_or_prod"
    ELSE IF ~S2Valid(c.s2_strategy) THEN "s2_strategy"
    ELSE IF c.s3_strategy = "None" THEN "none"
    ELSE IF ~S3Valid(c.s3_strategy) THEN "s3_strategy"
    ELSE IF ~c.corpus_df.given THEN "corpus_df"
    ELSE normalize_df(c.corpus_df.df, TRUE).err

\* variant: self.corpus is not replaced by the labels of the reference table
self_corpus_of_caller(s3_strategy, corpus, nd) == Unique(corpus)

\* self.corpus: list(dict.fromkeys(corpus)) (lines 59-60), replaced by the unique
\* official_label of the normalized table when s3_strategy is given (lines 89-90)
self_corpus(s3_strategy, corpus, nd) ==
    IF s3_strategy = "None" THEN Unique(corpus) ELSE Unique(LabelsOf(nd))

\* the fields __init__ sets when it raises nothing
InitFields(c, d) ==
    LET nd == IF c.s3_strategy = "None" THEN c.corpus_df.df
              ELSE normalize_df(c.corpus_df.df, TRUE).df
    IN [query |-> d.query,
        corpus |-> self_corpus(c.s3_strategy, d.corpus, nd),
        cura_map |-> d.cura_map,
        topk |-> d.topk,
        s2_strategy |-> c.s2_strategy,
        s3_strategy |-> c.s3_strategy,
        s3_threshold |-> d.s3_threshold,
        corpus_df |-> nd]

\* variant: _normalize_df works on the table it is given
df_copy_inplace(df, normalized) == normalized

\* df = df.copy(): what the caller's table holds after _normalize_df worked
df_copy(df, normalized) == df

\* whether __init__ reaches the call of _normalize_df (line 87)
NormalizeCalls(c) ==
    IF c.test_or_prod /\ S2Valid(c.s2_strategy) /\ c.s3_strategy # "None"
       /\ S3Valid(c.s3_strategy) /\ c.corpus_df.given
    THEN 1 ELSE 0

Construct ==
    /\ pc = "new"
    /\ \E c \in CfgPool, d \in DataPool :
         /\ cfg' = c
         /\ n_normalize' = n_normalize + NormalizeCalls(c)
         /\ IF InitError(c) # "none"
            THEN /\ pc' = "error"
                 /\ eng' = NoEngine
                 /\ caller' = NoCaller
            ELSE /\ pc' = "ready"
                 /\ eng' = InitFields(c, d)
                 /\ caller' = [query |-> d.query, corpus |-> d.corpus,
                               cura_map |-> d.cura_map,
                               corpus_df |->
                                 IF NormalizeCalls(c) = 0 THEN c.corpus_df.df
                                 ELSE df_copy(c.corpus_df.df,
                                              normalize_df(c.corpus_df.df, TRUE).df)]
    /\ UNCHANGED <<exact_df, s2_res, s3_in, non_exact, result, calls, returned,
                   resolved, npc, ntab, nout>>

(***************************************************************************)
(* _exact_matching and the stage-1 table of run().                         *)
(***************************************************************************)
\* variant: the comparison is not case-insensitive
NormalizedNoLower(s) == Strip(s)

Normalized(s) == Lower(Strip(s))

corpus_normalized(corpus) == {Normalized(corpus[i]) : i \in 1..Len(corpus)}

exact_matching(query, corpus) ==
    SelectIdx(query,
              [i \in 1..Len(query) |-> Normalized(query[i]) \in corpus_normalized(corpus)], 1)

\* variant: the curation map is not consulted for exact matches
ExactCuratedIgnoreMap(cura_map, q) == q

\* exact_df['original_value'].map(cura_map).fillna(exact_df['original_value'])
ExactCurated(cura_map, q) == DictGet(cura_map, q, q)

ExactSlots(topk) == 1..topk

ExactRow(q, cura_map, topk) ==
    [original_value |-> q,
     updated_value |-> NaN,
     curated_ontology |-> ExactCurated(cura_map, q),
     match_level |-> 1,
     stage |-> 1,
     matches |-> [i \in 1..topk |->
                    IF i \in ExactSlots(topk) THEN ExactCurated(cura_map, q) ELSE NaN],
     scores |-> [i \in 1..topk |->
                    IF i \in ExactSlots(topk) THEN NumScore(ExactScore) ELSE NullScore]]

ExactDf(matches, cura_map, topk) ==
    [i \in 1..Len(matches) |-> ExactRow(matches[i], cura_map, topk)]

\* list(np.setdiff1d(query, stage1_matches)): sorted, without repetitions
SetDiff1d(query, matches) == SortedSeq(Range(query) \ Range(matches))

(***************************************************************************)
(* _map_shortname_to_fullname.  The abbreviation file is read at each call.*)
(***************************************************************************)
AbbrFiles ==
    { [found |-> FALSE, rows |-> <<>>],
      [found |-> TRUE, rows |-> << <<<<"K", " ">>, <<"x">>>> >>] }

RECURSIVE DictFromPairs(_)
DictFromPairs(ps) ==
    IF ps = <<>> THEN <<>>
    ELSE DictSet(DictFromPairs(SubSeq(ps, 1, Len(ps) - 1)), ps[Len(ps)][1], ps[Len(ps)][2])

short_to_name(file) ==
    IF file.found
    THEN DictFromPairs([i \in 1..Len(file.rows) |->
                          <<Strip(file.rows[i][1]), Strip(file.rows[i][2])>>])
    ELSE <<>>

Replacement(file, q) == DictGet(short_to_name(file), Strip(q), Strip(q))

map_shortname_to_fullname(qs, file) ==
    DictFromPairs([i \in 1..Len(qs) |-> <<qs[i], Replacement(file, qs[i])>>])

\* variant: the surviving entries keep their original keys
ReKeyKeepOriginal(cura_map, mapping_dict) ==
    SelectIdx(cura_map,
              [i \in 1..Len(cura_map) |-> cura_map[i][1] \in DictKeys(mapping_dict)], 1)

\* {mapping_dict[k]: v for k, v in cura_map.items() if k in mapping_dict}
ReKey(cura_map, mapping_dict) ==
    LET kept == SelectIdx(cura_map,
                  [i \in 1..Len(cura_map) |-> cura_map[i][1] \in DictKeys(mapping_dict)], 1)
    IN DictFromPairs([i \in 1..Len(kept) |->
                        <<DictGet(mapping_dict, kept[i][1], NaN), kept[i][2]>>])

(***************************************************************************)
(* The matcher backends (external): every table get_match_results may     *)
(* return for a query list, with at most one row per query handed in.      *)
(***************************************************************************)
DropMark == [t |-> "drop", n |-> 0, s |-> NoStr]

BackendMatch == <<"m">>

S2Scores == {NumScore(40), TextScore(<<"0", ".", "9", "5">>), TextScore(<<"n", "/", "a">>)}

S3Scores == {NumScore(95)}

BackendRows(queries, f) ==
    LET picked == SelectIdx([i \in 1..Len(queries) |->
                               [original_value |-> queries[i], score |-> f[i],
                                match |-> BackendMatch]],
                            [i \in 1..Len(queries) |-> f[i] # DropMark], 1)
    IN picked

get_match_results(queries, scorePool) ==
    {[has_top1 |-> TRUE, rows |-> BackendRows(queries, f)] :
        f \in [1..Len(queries) -> scorePool \cup {DropMark}]}
    \cup
    {[has_top1 |-> FALSE, rows |-> BackendRows(queries, f)] :
        f \in [1..Len(queries) -> {NullScore}]}

\* _om_model_from_strategy: whether the name resolves to a backend
om_model_from_strategy(strategy) == strategy \in {"lm", "st", "rag", "rag_bie"}

(***************************************************************************)
(* The merge back to original_value and the stage tables of run().         *)
(***************************************************************************)
StageRow(orig, upd, sc, match, stage, cura_map, topk) ==
    [original_value |-> orig,
     updated_value |-> upd,
     curated_ontology |-> DictGet(cura_map, orig, NotFound),
     match_level |-> NaNInt,
     stage |-> stage,
     matches |-> [i \in 1..topk |-> match],
     scores |-> [i \in 1..topk |-> sc]]

\* variant: the merge keeps only the left rows the backend answered (how="inner")
MergeOneInner(orig, upd, res, stage, cura_map, topk) ==
    LET hits == SelectIdx(res.rows,
                  [j \in 1..Len(res.rows) |-> res.rows[j].original_value = upd], 1)
    IN [j \in 1..Len(hits) |->
          StageRow(orig, upd, hits[j].score, hits[j].match, stage, cura_map, topk)]

\* pd.merge(replace_df, res, on="updated_value", how="left") for one left row
MergeOne(orig, upd, res, stage, cura_map, topk) ==
    LET hits == SelectIdx(res.rows,
                  [j \in 1..Len(res.rows) |-> res.rows[j].original_value = upd], 1)
    IN IF hits = <<>>
       THEN <<StageRow(orig, upd, NullScore, NaN, stage, cura_map, topk)>>
       ELSE [j \in 1..Len(hits) |->
               StageRow(orig, upd, hits[j].score, hits[j].match, stage, cura_map, topk)]

MergeBack(origs, upds, res, stage, cura_map, topk) ==
    [has_top1 |-> res.has_top1,
     rows |-> Flatten([i \in 1..Len(origs) |->
                         MergeOne(origs[i], upds[i], res, stage, cura_map, topk)])]

NoRes == [has_top1 |-> FALSE, rows |-> <<>>]

AbbrCall(stage, qs) ==
    [fn |-> "abbr", stage |-> stage, strategy |-> "None", queries |-> qs, cura |-> <<>>,
     corpus |-> <<>>]

\* _om_model_from_strategy(strategy, qs) with corpus=self.corpus, then
\* get_match_results(cura_map=cura, ...)
BackendCall(stage, strategy, qs, cura, corpus) ==
    [fn |-> "backend", stage |-> stage, strategy |-> strategy, queries |-> qs, cura |-> cura,
     corpus |-> corpus]

\* one call of _map_shortname_to_fullname: whether the table was read, the
\* strings handed in and the dict returned
Resolution(stage, file, qs, mapping) ==
    [stage |-> stage, found |-> file.found, queries |-> qs, mapping |-> mapping]

\* the table one get_match_results call returned, before the rename and the merge
Returned(stage, out) == [stage |-> stage, has_top1 |-> out.has_top1, rows |-> out.rows]

\* variant: the stage-3 branch is taken whatever s3_strategy is
s3_disabled_never(strategy) == FALSE

\* if self.s3_strategy is None (line 308)
s3_disabled(strategy) == strategy = "None"

\* variant: the gate compares with <= instead of <
LowConfidenceInclusive(row, threshold) == ToNumericFill0(row.scores[1]) <= threshold

\* low_confidence_mask of one stage-2 row
LowConfidence(row, threshold) == ToNumericFill0(row.scores[1]) < threshold

\* variant: every stage-2 row is escalated
queries_for_s3_all(res, threshold) ==
    [i \in 1..Len(res.rows) |-> res.rows[i].original_value]

queries_for_s3(res, threshold) ==
    LET low == SelectIdx(res.rows,
                 [i \in 1..Len(res.rows) |-> LowConfidence(res.rows[i], threshold)], 1)
    IN [i \in 1..Len(low) |-> low[i].original_value]

\* variant: the stage-2 table is concatenated without the filter
s2_res_unfiltered(res, escalated) == res.rows

\* s2_res[~s2_res['original_value'].isin(queries_for_s3)]
s2_res_filtered(res, escalated) ==
    SelectIdx(res.rows,
              [i \in 1..Len(res.rows) |-> res.rows[i].original_value \notin Range(escalated)], 1)

(***************************************************************************)
(* run(), in the steps the cascade takes.                                  *)
(***************************************************************************)
\* variant: stage 2 is run whatever remains
no_non_exact_matches_never(rest) == FALSE

\* if not non_exact_matches_ls (line 267)
no_non_exact_matches(rest) == rest = <<>>

\* lines 243-272: stage 1, and the return when nothing remains
RunStage1 ==
    /\ pc = "ready"
    /\ LET matches == exact_matching(eng.query, eng.corpus)
           df == ExactDf(matches, eng.cura_map, eng.topk)
           rest == SetDiff1d(eng.query, matches)
       IN /\ exact_df' = df
          /\ non_exact' = rest
          /\ IF no_non_exact_matches(rest)
             THEN pc' = "done" /\ result' = df
             ELSE pc' = "stage2" /\ result' = result
    /\ UNCHANGED <<cfg, caller, eng, s2_res, s3_in, calls, returned, resolved,
                   n_normalize, npc, ntab, nout>>

\* lines 274-318: stage 2, and the return when stage 3 is disabled
RunStage2 ==
    /\ pc = "stage2"
    /\ \E file \in AbbrFiles :
         LET mapping_dict == map_shortname_to_fullname(non_exact, file)
             updated_queries == [i \in 1..Len(non_exact) |->
                                   DictGet(mapping_dict, non_exact[i], NaN)]
             updated_cura_map == ReKey(eng.cura_map, mapping_dict)
             history == calls \o <<AbbrCall(2, non_exact)>>
         IN /\ resolved' = Append(resolved, Resolution(2, file, non_exact, mapping_dict))
            /\ IF ~om_model_from_strategy(eng.s2_strategy)
               THEN /\ pc' = "raised"
                    /\ calls' = history
                    /\ UNCHANGED <<s2_res, result, returned>>
               ELSE \E out \in get_match_results(updated_queries, S2Scores) :
                      LET res == MergeBack(non_exact, updated_queries, out, 2,
                                           eng.cura_map, eng.topk)
                      IN /\ s2_res' = res
                         /\ returned' = Append(returned, Returned(2, out))
                         /\ calls' = history \o <<BackendCall(2, eng.s2_strategy,
                                                    updated_queries, updated_cura_map,
                                                    eng.corpus)>>
                         /\ IF s3_disabled(eng.s3_strategy)
                            THEN pc' = "done" /\ result' = exact_df \o res.rows
                            ELSE pc' = "stage3" /\ result' = result
    /\ UNCHANGED <<cfg, caller, eng, exact_df, s3_in, non_exact, n_normalize,
                   npc, ntab, nout>>

\* the table run() returns after stage 3 ran (lines 398-404)
Combined(s1, s2, escalated, s3) == s1 \o s2_res_filtered(s2, escalated) \o s3.rows

\* variant: stage 3 is run whatever the escalation list holds
no_queries_for_s3_never(escalated) == FALSE

\* if not queries_for_s3 (line 350)
no_queries_for_s3(escalated) == escalated = <<>>

\* variant: the gate is entered without looking for the column
HasTop1ColumnUnchecked(res) == TRUE

\* whether run() goes on to the confidence gate (line 325)
HasTop1Column(res) == res.has_top1

\* lines 320-417: the confidence gate and stage 3
RunStage3 ==
    /\ pc = "stage3"
    /\ IF ~HasTop1Column(s2_res)
       THEN /\ pc' = "done"
            /\ result' = exact_df \o s2_res.rows
            /\ UNCHANGED <<s3_in, calls, returned, resolved>>
       ELSE
         LET escalated == queries_for_s3(s2_res, eng.s3_threshold)
         IN /\ s3_in' = escalated
            /\ IF no_queries_for_s3(escalated)
               THEN /\ pc' = "done"
                    /\ result' = exact_df \o s2_res.rows
                    /\ UNCHANGED <<calls, returned, resolved>>
               ELSE \E file \in AbbrFiles :
                      LET mapping_dict_s3 == map_shortname_to_fullname(escalated, file)
                          updated_queries_s3 == [i \in 1..Len(escalated) |->
                                                   DictGet(mapping_dict_s3, escalated[i], NaN)]
                          updated_cura_map_s3 == ReKey(eng.cura_map, mapping_dict_s3)
                          history == calls \o <<AbbrCall(3, escalated)>>
                      IN /\ resolved' = Append(resolved,
                                          Resolution(3, file, escalated, mapping_dict_s3))
                         /\ IF ~om_model_from_strategy(eng.s3_strategy)
                            THEN /\ pc' = "raised"
                                 /\ calls' = history
                                 /\ UNCHANGED <<result, returned>>
                            ELSE \E out \in get_match_results(updated_queries_s3, S3Scores) :
                                   LET s3_res == MergeBack(escalated, updated_queries_s3, out, 3,
                                                           eng.cura_map, eng.topk)
                                   IN /\ pc' = "done"
                                      /\ returned' = Append(returned, Returned(3, out))
                                      /\ calls' = history \o
                                           <<BackendCall(3, eng.s3_strategy,
                                               updated_queries_s3, updated_cura_map_s3,
                                               eng.corpus)>>
                                      /\ result' = Combined(exact_df, s2_res, escalated, s3_res)
    /\ UNCHANGED <<cfg, caller, eng, exact_df, s2_res, non_exact, n_normalize,
                   npc, ntab, nout>>

Init ==
    /\ pc = "new"
    /\ cfg = NoCfg
    /\ caller = NoCaller
    /\ eng = NoEngine
    /\ exact_df = <<>>
    /\ s2_res = NoRes
    /\ s3_in = <<>>
    /\ non_exact = <<>>
    /\ result = <<>>
    /\ calls = <<>>
    /\ returned = <<>>
    /\ resolved = <<>>
    /\ n_normalize = 0
    /\ npc = "off"
    /\ ntab = [df |-> NoTable, need_code |-> FALSE]
    /\ nout = <<>>

Next == Construct \/ RunStage1 \/ RunStage2 \/ RunStage3

Spec == Init /\ [][Next]_vars

(***************************************************************************)
(* Harness for _normalize_df alone: a table and a flag are drawn, and the  *)
(* function is applied once and then again to its own output.              *)
(***************************************************************************)
LabelCells == {StrCell(sL), IntCell(<<"1">>), StrCell(<<"1">>), NullCell}

CodeCells == {StrCell(<<"C", "1">>), NullCell}

OboCells == {StrCell(<<"N", ":", "C", "1">>), StrCell(<<"N", ":">>)}

CellsOf(col) ==
    CASE col = "clean_code" -> CodeCells
      [] col = "obo_id" -> OboCells
      [] OTHER -> LabelCells

NormColSets ==
    { {"official_label", "clean_code"}, {"label", "obo_id"}, {"official_label"},
      {"label"}, {"obo_id"} }

NormRowsOf(cols) == {r \in [cols -> LabelCells \cup CodeCells \cup OboCells] :
                       \A c \in cols : r[c] \in CellsOf(c)}

NormTables ==
    UNION {{[cols |-> cols, rows |-> rs] :
              rs \in UNION {[1..n -> NormRowsOf(cols)] : n \in 0..MaxNormRows}} :
           cols \in NormColSets}

InitNorm ==
    /\ pc = "off"
    /\ cfg = NoCfg
    /\ caller = NoCaller
    /\ eng = NoEngine
    /\ exact_df = <<>>
    /\ s2_res = NoRes
    /\ s3_in = <<>>
    /\ non_exact = <<>>
    /\ result = <<>>
    /\ calls = <<>>
    /\ returned = <<>>
    /\ resolved = <<>>
    /\ n_normalize = 0
    /\ npc = "in"
    /\ ntab \in [df : NormTables, need_code : BOOLEAN]
    /\ nout = <<>>

\* _normalize_df(T, f)
NormFirst ==
    /\ npc = "in"
    /\ LET r == normalize_df(ntab.df, ntab.need_code)
       IN IF r.ok
          THEN npc' = "once" /\ nout' = <<r.df>>
          ELSE npc' = "failed" /\ nout' = nout
    /\ UNCHANGED <<pc, cfg, caller, eng, exact_df, s2_res, s3_in, non_exact, result,
                   calls, returned, resolved, n_normalize, ntab>>

\* _normalize_df(_normalize_df(T, f), f)
NormSecond ==
    /\ npc = "once"
    /\ LET r == normalize_df(nout[1], ntab.need_code)
       IN IF r.ok
          THEN npc' = "twice" /\ nout' = Append(nout, r.df)
          ELSE npc' = "failed" /\ nout' = nout
    /\ UNCHANGED <<pc, cfg, caller, eng, exact_df, s2_res, s3_in, non_exact, result,
                   calls, returned, resolved, n_normalize, ntab>>

NextNorm == NormFirst \/ NormSecond

SpecNorm == InitNorm /\ [][NextNorm]_vars

(***************************************************************************)
(* Properties.                                                             *)
(***************************************************************************)
Occurrences(seq, v) == Cardinality({i \in 1..Len(seq) : seq[i] = v})

OriginalValues(rows) == [i \in 1..Len(rows) |-> rows[i].original_value]

RowsOf(rows, q, stage) ==
    {i \in 1..Len(rows) : rows[i].original_value = q /\ rows[i].stage = stage}

Stage2Ran == \E i \in 1..Len(calls) : calls[i].fn = "backend" /\ calls[i].stage = 2

Stage3Ran == \E i \in 1..Len(calls) : calls[i].stage = 3

Stage3Enabled == eng.s3_strategy # "None"

\* the query matches a working-corpus entry under trim + case-fold
MatchesCorpus(q) ==
    \E j \in 1..Len(eng.corpus) : Lower(Strip(q)) = Lower(Strip(eng.corpus[j]))

\* the score the gate reads from a stage-2 row: numeric top1_score, else 0
GateScore(r) ==
    IF r.scores[1].t = "num" THEN r.scores[1].n
    ELSE IF r.scores[1].t = "text" /\ ParseHundredths(Strip(r.scores[1].s)) >= 0
         THEN ParseHundredths(Strip(r.scores[1].s))
         ELSE 0

\* top1_score is missing or is no number
Malformed(r) ==
    \/ r.scores[1].t = "null"
    \/ r.scores[1].t = "text" /\ ParseHundredths(Strip(r.scores[1].s)) < 0

\* C1 (Coverage): when run() has returned, every query occurs among the
\* original_value of the returned table exactly as often as in the query list.
C1_Coverage ==
    pc = "done" =>
        \A q \in QueryPool :
            Occurrences(OriginalValues(result), q) = Occurrences(eng.query, q)

\* C2 (Stage exclusivity): in the table run() returned, no two rows with the same
\* original_value carry different stage values, on every termination path.
C2_StageExclusivity ==
    pc = "done" =>
        \A i, j \in 1..Len(result) :
            result[i].original_value = result[j].original_value
                => result[i].stage = result[j].stage

\* a run that ended after stage 3 with one query kept at stage 2 and another
\* escalated, its stage-2 row superseded by a stage-3 row
C2_Witness ==
    /\ pc = "done"
    /\ Stage3Ran
    /\ \E j, k \in 1..Len(result) :
          /\ result[j].stage = 2
          /\ result[k].stage = 3
          /\ \E i \in 1..Len(s2_res.rows) :
                s2_res.rows[i].original_value = result[k].original_value

\* C3 as stated (Escalation correctness): with stage 3 enabled and top1_score
\* present, a stage-2 row below the threshold is replaced by a stage-3 row for the
\* same original_value, and every other stage-2 row is in the final table unchanged.
C3_AsStated ==
    (pc = "done" /\ Stage3Enabled /\ Stage2Ran /\ s2_res.has_top1) =>
        \A i \in 1..Len(s2_res.rows) :
            LET r == s2_res.rows[i]
            IN IF GateScore(r) < eng.s3_threshold
               THEN /\ r \notin Range(result)
                    /\ RowsOf(result, r.original_value, 3) # {}
               ELSE r \in Range(result)

\* the original_value of the stage-2 rows below the threshold
BelowThreshold ==
    {s2_res.rows[i].original_value :
        i \in {k \in 1..Len(s2_res.rows) : GateScore(s2_res.rows[k]) < eng.s3_threshold}}

\* C3 as amended: a stage-2 row below the threshold is replaced by a stage-3 row
\* for the same original_value; a row at or above the threshold is in the final
\* table unchanged with stage 2 exactly when no stage-2 row with the same
\* original_value is below the threshold, and is removed with them otherwise.
C3_Escalation ==
    (pc = "done" /\ Stage3Enabled /\ Stage2Ran /\ s2_res.has_top1) =>
        \A i \in 1..Len(s2_res.rows) :
            LET r == s2_res.rows[i]
            IN IF GateScore(r) < eng.s3_threshold
               THEN /\ r \notin Range(result)
                    /\ RowsOf(result, r.original_value, 3) # {}
               ELSE /\ r \in Range(result) <=> r.original_value \notin BelowThreshold
                    /\ r.stage = 2
                    /\ r.original_value \in BelowThreshold
                          => RowsOf(result, r.original_value, 3) # {}

\* a run where one stage-2 row was escalated and another was retained
C3_Witness ==
    /\ pc = "done" /\ Stage3Ran /\ s2_res.has_top1
    /\ \E i, j \in 1..Len(s2_res.rows) :
          /\ GateScore(s2_res.rows[i]) < eng.s3_threshold
          /\ GateScore(s2_res.rows[j]) >= eng.s3_threshold
          /\ s2_res.rows[j] \in Range(result)
          /\ RowsOf(result, s2_res.rows[i].original_value, 3) # {}

\* C4 (Exact-match correctness): every query equal to a working-corpus entry under
\* trim + case-fold has a row with match_level 1, stage 1, every top-K score 1.00
\* and every top-K match equal to its curation-map value, or to the query text
\* when the map has no entry; no other query has a stage-1 row.
C4_ExactMatch ==
    pc = "done" =>
        /\ \A n \in 1..Len(eng.query) :
              LET q == eng.query[n]
                  want == IF q \in DictKeys(eng.cura_map)
                          THEN DictGet(eng.cura_map, q, NaN) ELSE q
              IN MatchesCorpus(q) =>
                   /\ RowsOf(result, q, 1) # {}
                   /\ \A i \in 1..Len(result) :
                         result[i].original_value = q =>
                            /\ result[i].stage = 1
                            /\ result[i].match_level = 1
                            /\ DOMAIN result[i].scores = 1..eng.topk
                            /\ DOMAIN result[i].matches = 1..eng.topk
                            /\ \A k \in 1..eng.topk :
                                  /\ result[i].scores[k] = NumScore(100)
                                  /\ result[i].matches[k] = want
                                  /\ result[i].curated_ontology = want
        /\ \A i \in 1..Len(result) :
              result[i].stage = 1 => MatchesCorpus(result[i].original_value)

\* a run that returned a stage-1 row for a query differing from the corpus entry
\* in case and whitespace, beside a query that went on to stage 2
C4_Witness ==
    /\ pc = "done"
    /\ RowsOf(result, sl, 1) # {}
    /\ \E i \in 1..Len(result) : result[i].stage = 2

C6_Degradation ==
    (Stage3Enabled /\ Stage2Ran /\ ~s2_res.has_top1) =>
        /\ pc \in {"stage3", "done"}
        /\ ~Stage3Ran
        /\ Len(calls) = 2
        /\ pc = "done" =>
              /\ result = exact_df \o s2_res.rows
              /\ \A i \in 1..Len(result) : result[i].stage \in {1, 2}
              /\ \A i \in 1..Len(s2_res.rows) : s2_res.rows[i] \in Range(result)

\* a run with stage 3 configured that returned after a stage-2 output without
\* top1_score
C6_Witness ==
    /\ pc = "done" /\ Stage3Enabled /\ Stage2Ran /\ ~s2_res.has_top1
    /\ \E i \in 1..Len(result) : result[i].stage = 2

HasAny(df, cols) == df.cols \cap cols # {}

\* the constructor arguments name a configuration error
BadConfig(c) ==
    \/ ~c.test_or_prod
    \/ c.s2_strategy \notin {"lm", "st"}
    \/ /\ c.s3_strategy # "None"
       /\ \/ c.s3_strategy \notin {"rag", "rag_bie"}
          \/ ~c.corpus_df.given
          \/ ~HasAny(c.corpus_df.df, {"official_label", "label"})
          \/ ~HasAny(c.corpus_df.df, {"clean_code", "obo_id"})

\* C7 (Configuration errors are fatal at construction): after a construction with
\* a configuration error the controller is in the error state, no engine exists,
\* and no stage (exact match, abbreviation resolution, backend) has run for it.
C7_ConfigErrorsFatal ==
    (pc # "new" /\ BadConfig(cfg)) =>
        /\ pc = "error"
        /\ eng = NoEngine
        /\ calls = <<>>
        /\ exact_df = <<>>
        /\ s2_res = NoRes
        /\ result = <<>>

\* a construction refused for a reference table with no source for clean_code
C7_Witness ==
    /\ pc = "error"
    /\ cfg.test_or_prod /\ cfg.s2_strategy = "lm" /\ cfg.s3_strategy = "rag"
    /\ cfg.corpus_df.given
    /\ "label" \in cfg.corpus_df.df.cols
    /\ ~HasAny(cfg.corpus_df.df, {"clean_code", "obo_id"})

NormKeys == {"official_label"} \cup (IF ntab.need_code THEN {"clean_code"} ELSE {})

\* C8 (Normalizer contract): the table _normalize_df returns has, in every
\* required key column, only strings that stand for no null, and no two of its rows
\* are equal on the required keys.
C8_NormalizerContract ==
    npc \in {"once", "twice"} =>
        LET out == nout[1]
        IN /\ NormKeys \subseteq out.cols
           /\ \A i \in 1..Len(out.rows) : \A c \in NormKeys :
                 /\ out.rows[i][c].t = "str"
                 /\ out.rows[i][c].v # <<"n", "a", "n">>
           /\ \A i, j \in 1..Len(out.rows) :
                 i # j => \E c \in NormKeys : out.rows[i][c] # out.rows[j][c]

\* C9 (Idempotence of normalization): normalizing the output of _normalize_df
\* again, with the same flag, succeeds and returns the same rows and columns.
C9_Idempotent ==
    /\ npc = "twice" => nout[2] = nout[1]
    /\ npc = "failed" => nout = <<>>

\* two queries that match one and the same working-corpus entry
SameEntry(p, q) ==
    \E j \in 1..Len(eng.corpus) :
        /\ Lower(Strip(p)) = Lower(Strip(eng.corpus[j]))
        /\ Lower(Strip(q)) = Lower(Strip(eng.corpus[j]))

\* every query that matches no corpus entry went on to stage 2
NonMatchesProceed ==
    \A n \in 1..Len(eng.query) :
        ~MatchesCorpus(eng.query[n]) =>
            /\ eng.query[n] \in Range(non_exact)
            /\ pc = "done" =>
                  /\ Stage2Ran
                  /\ RowsOf(result, eng.query[n], 1) = {}
                  /\ \E i \in 1..Len(result) :
                        /\ result[i].original_value = eng.query[n]
                        /\ result[i].stage \in {2, 3}

\* C10 as stated (Case-variant exact matches agree): two queries matching the same
\* corpus entry under trim + case-fold both get stage-1 rows with the same
\* curated_ontology, for any curation map; a query matching no entry goes to stage 2.
C10_AsStated ==
    pc \in {"stage2", "stage3", "done"} =>
        /\ \A m, n \in 1..Len(eng.query) :
              SameEntry(eng.query[m], eng.query[n]) =>
                 \E i, j \in 1..Len(exact_df) :
                    /\ exact_df[i].original_value = eng.query[m]
                    /\ exact_df[j].original_value = eng.query[n]
                    /\ exact_df[i].stage = 1 /\ exact_df[j].stage = 1
                    /\ exact_df[i].curated_ontology = exact_df[j].curated_ontology
        /\ NonMatchesProceed

\* C10 as amended: two such queries both get stage-1 rows, each with its own
\* curation-map value or, without an entry, its own text, so the two values are
\* identical when the curation map gives both queries the same value and differ
\* when it has an entry for neither and the texts differ; a query matching no entry
\* goes to stage 2.
C10_CaseVariants ==
    pc \in {"stage2", "stage3", "done"} =>
        /\ \A m, n \in 1..Len(eng.query) :
              LET p == eng.query[m]
                  q == eng.query[n]
                  keys == DictKeys(eng.cura_map)
              IN SameEntry(p, q) =>
                 /\ \E i, j \in 1..Len(exact_df) :
                       /\ exact_df[i].original_value = p
                       /\ exact_df[j].original_value = q
                 /\ \A i, j \in 1..Len(exact_df) :
                       (exact_df[i].original_value = p /\ exact_df[j].original_value = q) =>
                          /\ exact_df[i].stage = 1 /\ exact_df[j].stage = 1
                          /\ (p \in keys /\ q \in keys
                              /\ DictGet(eng.cura_map, p, NaN) = DictGet(eng.cura_map, q, NaN))
                                => exact_df[i].curated_ontology = exact_df[j].curated_ontology
                          /\ (p \notin keys /\ q \notin keys /\ p # q)
                                => exact_df[i].curated_ontology # exact_df[j].curated_ontology
                          /\ p \notin keys => exact_df[i].curated_ontology = p
                          /\ p \in keys =>
                                exact_df[i].curated_ontology = DictGet(eng.cura_map, p, NaN)
        /\ pc = "done" => \A i \in 1..Len(exact_df) : exact_df[i] \in Range(result)
        /\ NonMatchesProceed

\* a run with both case variants in the query list, curated to one value, and a
\* query that went to stage 2
C10_Witness ==
    /\ pc = "done"
    /\ eng.cura_map # <<>>
    /\ \E i, j \in 1..Len(result) :
          /\ result[i].original_value = sL /\ result[j].original_value = sl
          /\ result[i].stage = 1 /\ result[j].stage = 1
          /\ result[i].curated_ontology = result[j].curated_ontology

\* the constructor succeeded and an engine exists
Constructed == pc \in {"ready", "stage2", "stage3", "done", "raised"}

\* C11 (Stage 3 disabled): with no s3_strategy, whatever the threshold and the
\* stage-2 scores, the confidence gate is never entered, no escalation set is
\* computed, no stage-3 resolver or backend call is made, and once stage 2 has run
\* the returned table is the stage-1 rows followed by every stage-2 row.
C11_Stage3Disabled ==
    (Constructed /\ ~Stage3Enabled) =>
        /\ pc # "stage3"
        /\ s3_in = <<>>
        /\ ~Stage3Ran
        /\ \A i \in 1..Len(resolved) : resolved[i].stage = 2
        /\ Stage2Ran =>
              /\ pc = "done"
              /\ Len(calls) = 2
              /\ result = exact_df \o s2_res.rows
              /\ \A i \in 1..Len(result) : result[i].stage \in {1, 2}

\* a run without stage 3, at the default threshold, that returned stage-2 rows
\* with a low score, with a non-numeric score and with no score
C11_Witness ==
    /\ pc = "done" /\ ~Stage3Enabled /\ Stage2Ran
    /\ eng.s3_threshold = DefaultThreshold
    /\ \E i, j \in 1..Len(result) :
          /\ result[i].stage = 2 /\ result[j].stage = 2
          /\ Malformed(result[i])
          /\ ~Malformed(result[j]) /\ GateScore(result[j]) < eng.s3_threshold

\* the caller's objects as they were handed to the constructor
InputsIntact ==
    /\ caller.corpus_df = cfg.corpus_df.df
    /\ caller.query = eng.query
    /\ caller.cura_map = eng.cura_map
    /\ ~Stage3Enabled => eng.corpus = Unique(caller.corpus)

\* C12 (No in-place mutation of caller inputs): construction leaves the caller's
\* query list, corpus list, curation map and reference table as they were passed,
\* and no step of run() changes any of them; the normalized table and the
\* re-keyed maps are other objects.
C12_NoMutation ==
    [][/\ Constructed' => InputsIntact'
       /\ Constructed => /\ caller' = caller
                         /\ cfg' = cfg
                         /\ eng'.query = eng.query
                         /\ eng'.cura_map = eng.cura_map
                         /\ eng'.corpus_df = eng.corpus_df]_vars

\* a finished three-stage run whose engine holds a normalized table and a
\* working corpus other than the caller's, and whose backend got a re-keyed map
\* other than the caller's curation map
C12_Witness ==
    /\ pc = "done" /\ Stage3Ran
    /\ caller.corpus_df = DfFallback
    /\ eng.corpus_df # caller.corpus_df
    /\ eng.corpus # caller.corpus
    /\ caller.cura_map # <<>>
    /\ \E i \in 1..Len(calls) :
          calls[i].fn = "backend" /\ calls[i].cura # caller.cura_map

\* C13 (Abbreviation-source failure degrades to identity): a call of
\* _map_shortname_to_fullname that could not load the table raises nothing and
\* returns a dict whose keys are exactly the strings handed in, each mapped to
\* itself, leading and trailing whitespace included; the run goes on to return.
C13_IdentityOnFailure ==
    \A i \in 1..Len(resolved) :
        ~resolved[i].found =>
            /\ DictKeys(resolved[i].mapping) = Range(resolved[i].queries)
            /\ \A q \in Range(resolved[i].queries) :
                  DictGet(resolved[i].mapping, q, NaN) = q
            /\ pc \in {"stage3", "done"}

\* the positions of run() in the order the code passes them
Rank(p) ==
    CASE p = "ready" -> 1
      [] p = "stage2" -> 2
      [] p = "stage3" -> 3
      [] OTHER -> 4

BackendCalls(stage) ==
    {i \in 1..Len(calls) : calls[i].fn = "backend" /\ calls[i].stage = stage}

AbbrCalls(stage) ==
    {i \in 1..Len(calls) : calls[i].fn = "abbr" /\ calls[i].stage = stage}

\* the calls made so far are in stage order, one resolver call and at most one
\* backend call per stage, the resolver first
CallsInOrder ==
    /\ \A i, j \in 1..Len(calls) : i < j => calls[i].stage <= calls[j].stage
    /\ \A i \in 1..Len(calls) : calls[i].stage \in {2, 3}
    /\ \A st \in {2, 3} :
          /\ Cardinality(BackendCalls(st)) <= 1
          /\ Cardinality(AbbrCalls(st)) <= 1
          /\ \A b \in BackendCalls(st) : \E a \in AbbrCalls(st) : a < b
    /\ pc \in {"new", "error", "ready", "stage2"} => calls = <<>>
    /\ pc = "stage3" => Len(calls) = 2 /\ Stage2Ran

\* C14 (Stage ordering): run() moves only forward through stage 1, stage 2 and
\* stage 3, each at most once; stage 3 makes its calls only after the stage-2
\* backend returned and only with s3_strategy configured, top1_score present and a
\* non-empty escalation list; with an empty escalation list run() returns the
\* stage-1 rows followed by the stage-2 rows.
C14_StageOrdering ==
    [][/\ CallsInOrder'
       /\ (Constructed /\ pc' # pc) => Rank(pc') > Rank(pc)
       /\ pc \in {"done", "raised"} => UNCHANGED vars
       /\ Stage3Ran' =>
             /\ Stage2Ran /\ pc = "stage3"
             /\ Stage3Enabled /\ s2_res.has_top1
             /\ s3_in' # <<>> /\ s3_in' = queries_for_s3(s2_res, eng.s3_threshold)
       /\ (pc = "stage3" /\ s2_res.has_top1
           /\ queries_for_s3(s2_res, eng.s3_threshold) = <<>>) =>
             /\ pc' = "done" /\ calls' = calls
             /\ result' = exact_df \o s2_res.rows]_vars

\* a run with stage-1 rows that made its four calls, stage 2 before stage 3
C14_Witness ==
    /\ pc = "done"
    /\ Len(calls) = 4
    /\ calls[2].fn = "backend" /\ calls[2].stage = 2
    /\ calls[4].fn = "backend" /\ calls[4].stage = 3
    /\ exact_df # <<>>

\* every query of the list is an exact match (true of the empty list)
AllExact == \A n \in 1..Len(eng.query) : MatchesCorpus(eng.query[n])

\* C15 (Early termination at stage 1): when every query is an exact match, or
\* the list is empty, run() returns from stage 1: the table holds only stage-1
\* rows and neither the abbreviation resolver nor a backend was called, whatever
\* s2_strategy, s3_strategy and s3_threshold are.
C15_EarlyTermination ==
    (Constructed /\ AllExact) =>
        /\ pc \in {"ready", "done"}
        /\ calls = <<>>
        /\ resolved = <<>>
        /\ s2_res = NoRes
        /\ pc = "done" =>
              /\ result = exact_df
              /\ Len(result) = Len(eng.query)
              /\ \A i \in 1..Len(result) : result[i].stage = 1

\* a run with stage 3 configured that returned two stage-1 rows and made no call
C15_Witness ==
    /\ pc = "done" /\ AllExact /\ Stage3Enabled
    /\ eng.s3_threshold = DefaultThreshold
    /\ Len(result) = 2
    /\ calls = <<>>

\* the rows of a stage after its join: the stage-2 table as merged, the stage-3
\* rows of the returned table
StageTable(stage) ==
    IF stage = 2 THEN s2_res.rows
    ELSE SelectIdx(result, [i \in 1..Len(result) |-> result[i].stage = 3], 1)

\* C16 (Left-join preservation): after the join of stage 2, and of stage 3, every
\* query handed to the stage has a row in the stage table; when the backend's
\* output has no row for the query's expansion, its rows are tagged with the
\* stage and have null top-K matches and scores, updated_value equal to the
\* expansion and curated_ontology equal to the curation-map value of the original
\* string, or "Not Found".
C16_LeftJoin ==
    \A k \in 1..Len(returned) :
        LET st == returned[k].stage
            qs == resolved[k].queries
            answered == {returned[k].rows[j].original_value :
                            j \in 1..Len(returned[k].rows)}
            table == StageTable(st)
        IN (st = 3 => pc = "done") /\ resolved[k].stage = st /\
           \A q \in Range(qs) :
              /\ \E i \in 1..Len(table) : table[i].original_value = q
              /\ \A i \in 1..Len(table) :
                    table[i].original_value = q =>
                       /\ table[i].stage = st
                       /\ table[i].updated_value = DictGet(resolved[k].mapping, q, NaN)
                       /\ table[i].curated_ontology = DictGet(eng.cura_map, q, NotFound)
                       /\ table[i].updated_value \notin answered =>
                             \A n \in 1..eng.topk :
                                /\ table[i].scores[n] = NullScore
                                /\ table[i].matches[n] = NaN

\* a run whose stage-3 backend left out the expansion x of the curated query " K"
C16_Witness ==
    /\ pc = "done" /\ Stage3Ran
    /\ returned[2].rows = <<>>
    /\ \E i \in 1..Len(result) :
          /\ result[i].original_value = sK
          /\ result[i].updated_value = sx
          /\ result[i].stage = 3
          /\ result[i].curated_ontology = cC
          /\ result[i].scores[1] = NullScore

\* the resolver call of a stage
ResolutionOf(stage) == resolved[CHOOSE k \in 1..Len(resolved) : resolved[k].stage = stage]

\* expand(k) in the resolver call of a stage
Expand(stage, k) == DictGet(ResolutionOf(stage).mapping, k, NaN)

\* the curation-map keys that are queries of the stage
StageKeys(stage) == DictKeys(eng.cura_map) \cap Range(ResolutionOf(stage).queries)

\* C17 as stated (Curation-map re-keying): the map a stage's backend receives has
\* the keys expand(k) for the curation-map keys k among the stage's queries and no
\* others, and gives each expand(k) the value cura_map[k], also when two keys with
\* different values expand to the same string.
C17_AsStated ==
    \A i \in 1..Len(calls) :
        calls[i].fn = "backend" =>
            LET st == calls[i].stage
            IN /\ DictKeys(calls[i].cura) = {Expand(st, k) : k \in StageKeys(st)}
               /\ \A k \in StageKeys(st) :
                     DictGet(calls[i].cura, Expand(st, k), NaN) = DictGet(eng.cura_map, k, NaN)

\* the last curation-map key, in the map's order, among the stage's queries that
\* expand to string e
LastKeyFor(stage, e) ==
    LET idx == {j \in 1..Len(eng.cura_map) :
                  /\ eng.cura_map[j][1] \in StageKeys(stage)
                  /\ Expand(stage, eng.cura_map[j][1]) = e}
    IN eng.cura_map[CHOOSE j \in idx : \A m \in idx : m <= j][1]

\* C17 as amended: the key set is as stated; each expand(k) has the value
\* cura_map[k'] of the last key k' in curation-map order, among the stage's
\* queries, that expands to the same string, which is cura_map[k] whenever no other
\* such key expands to expand(k).
C17_ReKeying ==
    \A i \in 1..Len(calls) :
        calls[i].fn = "backend" =>
            LET st == calls[i].stage
            IN /\ DictKeys(calls[i].cura) = {Expand(st, k) : k \in StageKeys(st)}
               /\ Len(calls[i].cura) = Cardinality(DictKeys(calls[i].cura))
               /\ \A k \in StageKeys(st) :
                     /\ DictGet(calls[i].cura, Expand(st, k), NaN)
                          = DictGet(eng.cura_map, LastKeyFor(st, Expand(st, k)), NaN)
                     /\ (\A k2 \in StageKeys(st) : Expand(st, k2) = Expand(st, k) => k2 = k)
                          => DictGet(calls[i].cura, Expand(st, k), NaN)
                               = DictGet(eng.cura_map, k, NaN)

\* a stage-2 call where " K" and "x", curated to different values, both expand to
\* "x", and the backend got the value of " K", the later key of the curation map
C17_Witness ==
    /\ Stage2Ran
    /\ StageKeys(2) = {sx, sK}
    /\ Expand(2, sK) = sx /\ Expand(2, sx) = sx
    /\ calls[2].cura = << <<sx, cC>> >>
    /\ Len(eng.cura_map) > 2

\* C18 (Stage 3 operates on exactly the escalated queries): the stage-3 resolver
\* call gets the originals of the stage-2 rows below the threshold and no other
\* string, the stage-3 backend gets their expansions and the curation map re-keyed
\* over them, none of them is an exact match, and the original_value of the
\* stage-3 rows returned are exactly the escalated queries.
C18_Stage3Inputs ==
    Stage3Ran =>
        LET r == ResolutionOf(3)
        IN /\ Range(s3_in) = BelowThreshold
           /\ s3_in # <<>>
           /\ r.queries = s3_in
           /\ DictKeys(r.mapping) = Range(s3_in)
           /\ calls[3] = AbbrCall(3, s3_in)
           /\ Range(s3_in) \subseteq Range(non_exact)
           /\ \A q \in Range(s3_in) : ~MatchesCorpus(q) /\ RowsOf(exact_df, q, 1) = {}
           /\ Len(calls) = 4 =>
                 /\ calls[4].fn = "backend" /\ calls[4].stage = 3
                 /\ calls[4].queries = [i \in 1..Len(s3_in) |-> Expand(3, s3_in[i])]
                 /\ DictKeys(calls[4].cura) =
                       {Expand(3, k) : k \in DictKeys(eng.cura_map) \cap Range(s3_in)}
           /\ pc = "done" =>
                 /\ {result[i].original_value :
                        i \in {n \in 1..Len(result) : result[n].stage = 3}} = Range(s3_in)
                 /\ \A i \in 1..Len(result) :
                       result[i].stage = 2 => result[i].original_value \notin Range(s3_in)

\* a run where stage 3 got one of two stage-2 queries, the other being retained,
\* and the escalated query was expanded again by the second resolver call
C18_Witness ==
    /\ pc = "done" /\ Stage3Ran
    /\ s3_in = <<sK>>
    /\ calls[4].queries = <<sx>>
    /\ calls[4].cura = << <<sx, cC>> >>
    /\ Range(non_exact) = {sx, sK}
    /\ \E i \in 1..Len(result) : result[i].stage = 2 /\ result[i].original_value = sx

FirstIndex(seq, v) == CHOOSE i \in 1..Len(seq) : seq[i] = v /\ \A m \in 1..(i - 1) : seq[m] # v

\* list l holds the elements of seq once each, in the order of first occurrence
DuplicateFree(l, seq) ==
    /\ Range(l) = Range(seq)
    /\ Cardinality(Range(l)) = Len(l)
    /\ \A i, j \in 1..Len(l) : i < j => FirstIndex(seq, l[i]) < FirstIndex(seq, l[j])

\* the official_label column of the normalized reference table of the call
ReferenceLabels == LabelsOf(normalize_df(cfg.corpus_df.df, TRUE).df)

\* C19 (Working-corpus replacement): with a stage-3 strategy the working corpus
\* is the duplicate-free list of official_label of the normalized reference table,
\* without a stage-3 strategy it is the caller's corpus without duplicates in
\* first-occurrence order; exact matching and both backends use this list;
\* _normalize_df is called once by a construction with a stage-3 strategy, not at
\* all by one without, and never by run().
C19_WorkingCorpus ==
    Constructed =>
        /\ Stage3Enabled => DuplicateFree(eng.corpus, ReferenceLabels)
        /\ ~Stage3Enabled => DuplicateFree(eng.corpus, caller.corpus)
        /\ n_normalize = (IF Stage3Enabled THEN 1 ELSE 0)
        /\ Stage3Enabled => eng.corpus_df = normalize_df(cfg.corpus_df.df, TRUE).df
        /\ pc # "ready" =>
              \A q \in Range(eng.query) :
                 RowsOf(exact_df, q, 1) # {} <=>
                    \E j \in 1..Len(eng.corpus) : Normalized(q) = Normalized(eng.corpus[j])
        /\ \A i \in 1..Len(calls) :
              calls[i].fn = "backend" => calls[i].corpus = eng.corpus

\* a three-stage run on the labels of the reference table, which are not the
\* strings of the caller's corpus
C19_Witness ==
    /\ pc = "done" /\ Stage3Ran /\ Len(calls) = 4
    /\ eng.corpus = <<sL, sb>>
    /\ sL \notin Range(caller.corpus)
    /\ calls[2].corpus = eng.corpus /\ calls[4].corpus = eng.corpus
    /\ n_normalize = 1
    /\ exact_df # <<>>

\* strategy names: the four the adapter knows, and others
StrategyNames == {"lm", "st", "rag", "rag_bie", "other", "None"}

\* the strategy names run() has handed to _om_model_from_strategy so far
AdapterNames(stage) ==
    {calls[i].strategy : i \in BackendCalls(stage)}
    \cup (IF pc = "raised" /\ AbbrCalls(stage) # {} /\ BackendCalls(stage) = {}
          THEN {IF stage = 2 THEN eng.s2_strategy ELSE eng.s3_strategy} ELSE {})

\* C20 (Strategy-resolution error unreachable after valid construction): once the
\* constructor succeeded, run() hands the adapter only lm or st at stage 2 and only
\* rag or rag_bie at stage 3, and never ends in the adapter's unrecognized-strategy
\* error; the adapter raises that error exactly for a name outside lm, st, rag,
\* rag_bie.
C20_NoStrategyError ==
    /\ \A s \in StrategyNames :
          om_model_from_strategy(s) <=> s \in {"lm", "st", "rag", "rag_bie"}
    /\ Constructed =>
          /\ pc # "raised"
          /\ eng.s2_strategy \in {"lm", "st"}
          /\ eng.s3_strategy \in {"None", "rag", "rag_bie"}
          /\ AdapterNames(2) \subseteq {"lm", "st"}
          /\ AdapterNames(3) \subseteq {"rag", "rag_bie"}
          /\ (pc \in {"stage3", "done"} /\ non_exact # <<>>) => AdapterNames(2) # {}

\* a finished run that resolved st at stage 2 and rag_bie at stage 3
C20_Witness ==
    /\ pc = "done" /\ Len(calls) = 4
    /\ calls[2].strategy = "st"
    /\ calls[4].strategy = "rag_bie"
    /\ AdapterNames(2) = {"st"} /\ AdapterNames(3) = {"rag_bie"}
====
